---- MODULE Spec2Model ----
(***************************************************************************)
(* Probabilistic linear solver: the iteration engine                       *)
(* (linalg/linearsolvers/_probabilistic_linear_solver.py) composed with    *)
(* the symmetric-normal belief update for linear observations              *)
(* (linalg/solvers/belief_updates/_symmetric_normal_linear_obs.py).        *)
(*                                                                         *)
(* Numbers are exact rationals <<num, den>> (den > 0, lowest terms); the   *)
(* single value NF stands for the non-finite floating point results        *)
(* (inf, -inf, nan) that numpy produces for a division by zero.            *)
(***************************************************************************)
EXTENDS Integers, Sequences, FiniteSets, TLC

VARIABLES
    problem,            \* LinearSystem: [A, b]
    prior,              \* self.prior: belief [x]
    stopping_criteria,  \* self.stopping_criteria: sequence of criteria
    driver,             \* who pulls the generator: "solve" (solve()) or "caller"
    solver_state,       \* the LinearSolverState object of the run
    gen,                \* generator: "created", "suspended", "done", "raised"
    loc_has_converged,  \* generator local _has_converged
    loc_solver_state,   \* what the generator local solver_state is bound to
    yielded,            \* value of the last yield
    solve_local,        \* solve(): what its loop variable solver_state is bound to
    result,             \* solve(): outcome of the call
    err,                \* component whose exception ended the generator
    trace,              \* history: component calls in order
    yields,             \* history: number of yields so far
    prev,               \* history: solver_state at the end of the previous iteration
    lastAction,         \* history: action returned by the policy in the last iteration
    lastObs,            \* history: observation returned in the last iteration
    lastEval,           \* history: criteria evaluated by the last has_converged call
    lastRet,            \* history: the pair the last has_converged call returned
    ext,                \* history: number of has_converged calls made by the caller
    call,               \* component called directly: the operation and its arguments
    ret,                \* outcome of that call: what it returned or raised
    belief,             \* a SymmetricLinearSystemBelief object: [x, A, Ainv, b]
    belief_update,      \* a WeakMeanCorrLinearObsBeliefUpdate object: [problem, prior]
    calls,              \* history: number of direct calls so far
    runs                \* two generators of one solver: the frame of each

\* the variables of the direct calls of the belief classes, the belief updates
\* and the observation operator
opvars == <<call, ret, belief, belief_update, calls, runs>>

vars == <<problem, prior, stopping_criteria, driver, solver_state, gen,
          loc_has_converged, loc_solver_state, yielded, solve_local, result,
          err, trace, yields, prev, lastAction, lastObs, lastEval, lastRet, ext,
          call, ret, belief, belief_update, calls, runs>>

(***************************************************************************)
(* Bounds                                                                  *)
(***************************************************************************)
N == 2              \* dimension of the linear system
MaxSteps == 3       \* iterations explored per run
MaxExtCalls == 2    \* has_converged calls made by the caller per run
MaxCalls == 2       \* direct calls of the components explored per behaviour
RtolDen == 2        \* relative tolerance of the residual criterion: 1/RtolDen

(***************************************************************************)
(* Exact arithmetic                                                        *)
(***************************************************************************)
Abs(i) == IF i < 0 THEN -i ELSE i

RECURSIVE GCD(_, _)
GCD(a, b) == IF b = 0 THEN a ELSE GCD(b, a % b)

NF == <<0, 0>>

IsFinite(q) == q[2] # 0

Rat(n, d) ==
    IF d = 0 THEN NF
    ELSE LET g == GCD(Abs(n), Abs(d))
             s == IF d < 0 THEN -1 ELSE 1
         IN  <<(s * n) \div g, (s * d) \div g>>

Zero == <<0, 1>>

\* p + q over the least common denominator, g = gcd of the denominators
RAddOver(p, q, g) ==
    Rat(p[1] * (q[2] \div g) + q[1] * (p[2] \div g), (p[2] \div g) * q[2])

RAdd(p, q) == IF p = NF \/ q = NF THEN NF ELSE RAddOver(p, q, GCD(p[2], q[2]))

RNeg(p) == IF p = NF THEN NF ELSE <<-p[1], p[2]>>

RSub(p, q) == RAdd(p, RNeg(q))

\* p q with the common factors g of p[1], q[2] and h of q[1], p[2] cancelled
RMulOver(p, q, g, h) ==
    Rat((p[1] \div g) * (q[1] \div h), (p[2] \div h) * (q[2] \div g))

RMul(p, q) ==
    IF p = NF \/ q = NF THEN NF
    ELSE RMulOver(p, q, GCD(Abs(p[1]), q[2]), GCD(Abs(q[1]), p[2]))

RDiv(p, q) ==
    IF p = NF \/ q = NF THEN NF
    ELSE IF q[1] = 0 THEN NF
    ELSE RMul(p, Rat(q[2], q[1]))

RAbs(p) == IF p = NF THEN NF ELSE <<Abs(p[1]), p[2]>>

RLeq(p, q) == IsFinite(p) /\ IsFinite(q) /\ p[1] * q[2] <= q[1] * p[2]

Idx == 1..N

RECURSIVE SumTo(_, _)
SumTo(f, k) == IF k = 0 THEN Zero ELSE RAdd(SumTo(f, k - 1), f[k])

Dot(u, v) == SumTo([i \in Idx |-> RMul(u[i], v[i])], N)

MatVec(M, v) == [i \in Idx |-> Dot(M[i], v)]

VAdd(u, v) == [i \in Idx |-> RAdd(u[i], v[i])]

VSub(u, v) == [i \in Idx |-> RSub(u[i], v[i])]

VScale(c, v) == [i \in Idx |-> RMul(c, v[i])]

Norm1(v) == SumTo([i \in Idx |-> RAbs(v[i])], N)

VFinite(v) == \A i \in Idx : IsFinite(v[i])

One == <<1, 1>>

Half == <<1, 2>>

\* matrices are functions from row index to row vector
Identity == [i \in Idx |-> [j \in Idx |-> IF i = j THEN One ELSE Zero]]

MatAdd(A, B) == [i \in Idx |-> VAdd(A[i], B[i])]

MatSub(A, B) == [i \in Idx |-> VSub(A[i], B[i])]

MatScale(c, A) == [i \in Idx |-> VScale(c, A[i])]

Transpose(A) == [i \in Idx |-> [j \in Idx |-> A[j][i]]]

\* u v'
Outer(u, v) == [i \in Idx |-> VScale(u[i], v)]

Trace(A) == SumTo([i \in Idx |-> A[i][i]], N)

MatFinite(A) == \A i \in Idx : VFinite(A[i])

\* A B
MatMul(A, B) == [i \in Idx |-> [j \in Idx |-> Dot(A[i], [k \in Idx |-> B[k][j]])]]

RemoveAt(seq, j) ==
    [i \in 1..(Len(seq) - 1) |-> IF i < j THEN seq[i] ELSE seq[i + 1]]

\* determinant of the submatrix of the given rows and columns, expanded along
\* its first row
RECURSIVE Det(_, _, _)
Det(A, rows, cols) ==
    IF Len(rows) = 0 THEN One
    ELSE SumTo([j \in 1..Len(cols) |->
                   RMul(RMul(IF j % 2 = 1 THEN One ELSE RNeg(One),
                             A[rows[1]][cols[j]]),
                        Det(A, Tail(rows), RemoveAt(cols, j)))],
               Len(cols))

IdxSeq == [i \in Idx |-> i]

\* the inverse matrix (np.linalg.inv); not finite for a singular matrix
MatInv(A) ==
    LET d == Det(A, IdxSeq, IdxSeq)
    IN  [i \in Idx |-> [j \in Idx |->
            RDiv(RMul(IF (i + j) % 2 = 0 THEN One ELSE RNeg(One),
                      Det(A, RemoveAt(IdxSeq, j), RemoveAt(IdxSeq, i))),
                 d)]]

\* an optional value: None, or the value wrapped
None == <<>>

Some(v) == <<v>>

(***************************************************************************)
(* Inputs: linear systems, priors, actions, stopping criteria              *)
(***************************************************************************)
IntVec(f) == [i \in Idx |-> <<f[i], 1>>]

ZeroVec == IntVec([i \in Idx |-> 0])
OnesVec == IntVec([i \in Idx |-> 1])
UnitVec(k) == IntVec([i \in Idx |-> IF i = k THEN 1 ELSE 0])

\* tridiagonal symmetric matrix with d on the diagonal and o next to it
Tridiag(d, o) ==
    [i \in Idx |-> IntVec([j \in Idx |-> IF i = j THEN d
                                          ELSE IF Abs(i - j) = 1 THEN o ELSE 0])]

Matrices == {Tridiag(2, 1), Tridiag(0, 1)}

Problems == [A : Matrices, b : {ZeroVec, UnitVec(1), OnesVec}]

Priors == [x : {ZeroVec, OnesVec}]

Actions == {UnitVec(1), UnitVec(N), OnesVec, ZeroVec}

MaxIterations(cap) == [kind |-> "MaxIterations", param |-> cap]
ResidualNorm == [kind |-> "ResidualNorm", param |-> 0]
Custom(k) == [kind |-> "StoppingCriterion", param |-> k]

CritLists ==
    { <<MaxIterations(0)>>,
      <<MaxIterations(1)>>,
      <<MaxIterations(N), ResidualNorm>>,
      <<ResidualNorm, Custom(1)>>,
      <<Custom(2), Custom(1)>>,
      <<MaxIterations(N), Custom(2)>> }

(***************************************************************************)
(* Stopping criteria.  A criterion is called as                            *)
(* stopping_criterion(problem, belief, solver_state) and returns the pair  *)
(* (has_converged, convergence_criterion).                                 *)
(***************************************************************************)
CritHolds(c, st) ==
    CASE c.kind = "MaxIterations" -> st.iteration >= c.param
      [] c.kind = "ResidualNorm" ->
            RLeq(Norm1(st.residual), RMul(<<1, RtolDen>>, Norm1(problem.b)))
      [] OTHER -> Len(st.actions) >= c.param

\* second component of the pair a criterion returns
CritReturn(c) == c.kind

\* stopping_criterion.__class__.__name__
ClassName(c) == c.kind

RECURSIVE LastTrue(_, _, _)
LastTrue(crits, st, i) ==
    IF i > Len(crits) THEN 0
    ELSE LET later == LastTrue(crits, st, i + 1)
         IN  IF later # 0 THEN later
             ELSE IF CritHolds(crits[i], st) THEN i ELSE 0

\* the for loop of has_converged: index of the criterion at which it returns,
\* 0 when it runs through the whole list
RECURSIVE FirstTrue(_, _, _)
FirstTrue(crits, st, i) ==
    IF i > Len(crits) THEN 0
    ELSE IF CritHolds(crits[i], st) THEN i
    ELSE FirstTrue(crits, st, i + 1)

UpTo(k) == [i \in 1..k |-> i]

HasConvergedNoShortcut(st) ==
    LET k == FirstTrue(stopping_criteria, st, 1)
    IN  IF k = 0
        THEN [flag |-> FALSE, ret |-> "state", st |-> st,
              evaluated |-> UpTo(Len(stopping_criteria))]
        ELSE [flag |-> TRUE, ret |-> CritReturn(stopping_criteria[k]),
              st |-> [st EXCEPT !.has_converged = TRUE,
                                !.stopping_criterion = ClassName(stopping_criteria[k])],
              evaluated |-> UpTo(k)]

\* ProbabilisticLinearSolver.has_converged: the returned pair (flag, ret), the
\* state object after the call and the criteria it evaluated
HasConverged(st) ==
    IF st.has_converged
    THEN [flag |-> TRUE, ret |-> "state", st |-> st, evaluated |-> <<>>]
    ELSE LET k == FirstTrue(stopping_criteria, st, 1)
         IN  IF k = 0
             THEN [flag |-> FALSE, ret |-> "state", st |-> st,
                   evaluated |-> UpTo(Len(stopping_criteria))]
             ELSE [flag |-> TRUE, ret |-> CritReturn(stopping_criteria[k]),
                   st |-> [st EXCEPT !.has_converged = TRUE,
                                     !.stopping_criterion = ClassName(stopping_criteria[k])],
                   evaluated |-> UpTo(k)]

(***************************************************************************)
(* Belief update (noise-free, linear observations); self.solver_state is   *)
(* the state object of the run.                                            *)
(***************************************************************************)
\* _log_rayleigh_quotient: ln(ip) - ln(s's), kept as its two arguments
LogRayleighQuotient(ip, action) == [ip |-> ip, ss |-> Dot(action, action)]

\* _step_size
StepSize(st, residual, action, observation) ==
    LET ip == IF st.iteration + 1 <= Len(st.action_obs_innerprods)
              THEN st.action_obs_innerprods[st.iteration + 1]
              ELSE Dot(action, observation)
        step == RDiv(RNeg(Dot(action, residual)), ip)
    IN  [step |-> step,
         st |-> [st EXCEPT !.action_obs_innerprods = Append(@, ip),
                           !.step_sizes = Append(@, step),
                           !.log_rayleigh_quotients =
                               Append(@, LogRayleighQuotient(ip, action))]]

\* _residual
Residual(st, residual, step_size, observation) ==
    [st EXCEPT !.residual = VAdd(residual, VScale(step_size, observation))]

\* LinearSystemNoise(A_eps, b_eps): the hyperparameters of an update
LinearSystemNoise(A_eps, b_eps) == [A_eps |-> A_eps, b_eps |-> b_eps]

\* the default value of update's hyperparams argument
NoNoise == LinearSystemNoise(None, None)

\* _update_terms_x
UpdateTermsX(st, action, observation, noise) ==
    IF noise.A_eps = None /\ noise.b_eps = None
    THEN CHOOSE r \in
             {[x_mean_update |-> VScale(ss.step, action),
               st |-> Residual(ss.st, st.residual, ss.step, observation),
               raised |-> "none"] :
                  ss \in {StepSize(st, st.residual, action, observation)}} : TRUE
    ELSE [x_mean_update |-> ZeroVec, st |-> st, raised |-> "NotImplementedError"]

\* _updated_belief_x
UpdatedBeliefX(st, belief_x, action, observation, noise) ==
    IF noise.A_eps = None /\ noise.b_eps = None
    THEN CHOOSE r \in
             {[x |-> VAdd(belief_x, t.x_mean_update), st |-> t.st,
               raised |-> t.raised] :
                  t \in {UpdateTermsX(st, action, observation, noise)}} : TRUE
    ELSE [x |-> None, st |-> st, raised |-> "none"]

\* SymmetricNormalLinearSystemBelief(x, Ainv, A, b)
SymmetricNormalLinearSystemBelief(x, Ainv, A, b) ==
    [type |-> "SymmetricNormalLinearSystemBelief", x |-> x, Ainv |-> Ainv, A |-> A,
     b |-> b]

\* NoisySymmetricNormalLinearSystemBelief(x, Ainv, A, b, noise)
NoisySymmetricNormalLinearSystemBelief(x, Ainv, A, b, noise) ==
    [type |-> "NoisySymmetricNormalLinearSystemBelief", x |-> x, Ainv |-> Ainv,
     A |-> A, b |-> b, noise |-> noise]

UpdateNoisyOnlyIfBoth(st, belief_, action, observation, hyperparams) ==
    LET A_updated == None
        Ainv_updated == None
        b_updated == None
        u == UpdatedBeliefX(st, belief_.x, action, observation, hyperparams)
    IN  [belief |->
             IF hyperparams.A_eps = None \/ hyperparams.b_eps = None
             THEN SymmetricNormalLinearSystemBelief(u.x, Ainv_updated, A_updated,
                                                    b_updated)
             ELSE NoisySymmetricNormalLinearSystemBelief(u.x, Ainv_updated, A_updated,
                                                         b_updated, hyperparams),
         st |-> u.st, raised |-> u.raised]

\* update: the belief it returns, the solver state after the call, and the
\* exception it raises, if any
Update(st, belief_, action, observation, hyperparams) ==
    LET A_updated == None
        Ainv_updated == None
        b_updated == None
    IN  CHOOSE r \in
            {[belief |->
                  IF hyperparams.A_eps = None /\ hyperparams.b_eps = None
                  THEN SymmetricNormalLinearSystemBelief(u.x, Ainv_updated,
                                                         A_updated, b_updated)
                  ELSE NoisySymmetricNormalLinearSystemBelief(
                           u.x, Ainv_updated, A_updated, b_updated, hyperparams),
              st |-> u.st, raised |-> u.raised] :
                 u \in {UpdatedBeliefX(st, belief_.x, action, observation,
                                       hyperparams)}} : TRUE

(***************************************************************************)
(* Solver engine                                                           *)
(***************************************************************************)
\* solve_iterator, setup: the LinearSolverState the generator creates
LinearSolverState ==
    [belief |-> prior,
     actions |-> <<>>,
     observations |-> <<>>,
     iteration |-> 0,
     residual |-> VSub(MatVec(problem.A, prior.x), problem.b),
     rayleigh_quotients |-> <<>>,
     has_converged |-> FALSE,
     stopping_criterion |-> "None",
     action_obs_innerprods |-> <<>>,
     step_sizes |-> <<>>,
     log_rayleigh_quotients |-> <<>>]

MatVecObservationTransposed(prob, action, st) ==
    LET observation == MatVec(Transpose(prob.A), action)
    IN  [observation |-> observation,
         solver_state |-> IF st = None THEN None
                          ELSE Some([st[1] EXCEPT !.observations = Append(@, observation)]),
         problem |-> prob, action |-> action]

\* MatVecObservation.__call__: the returned pair (observation, solver_state),
\* and the problem and the action as the call leaves them
MatVecObservation(prob, action, st) ==
    LET observation == MatVec(prob.A, action)
    IN  [observation |-> observation,
         solver_state |-> IF st = None THEN None
                          ELSE Some([st[1] EXCEPT !.observations = Append(@, observation)]),
         problem |-> prob, action |-> action]

\* MatVecObservation.__call__ as the engine calls it (no solver state passed)
Observe(action) == MatVecObservation(problem, action, None).observation

Repeat(x, k) == [i \in 1..k |-> x]

RaiseSwallowed(st, component, done) ==
    [st |-> st, gen |-> "suspended", flag |-> FALSE, ret |-> "state",
     err |-> component, tr |-> done \o <<"raise">>, called |-> FALSE,
     evaluated |-> <<>>]

\* an exception leaves the generator frame: nothing in the loop catches it
Raise(st, component, done) ==
    [st |-> st, gen |-> "raised", flag |-> FALSE, ret |-> "state",
     err |-> component, tr |-> done \o <<"raise">>, called |-> FALSE,
     evaluated |-> <<>>]

\* solver_state.actions.append(action)
AppendAction(st, action) == [st EXCEPT !.actions = Append(@, action)]

AppendObservationOverwrite(st, observation) ==
    [st EXCEPT !.observations = <<observation>>]

\* solver_state.observations.append(observation)
AppendObservation(st, observation) ==
    [st EXCEPT !.observations = Append(@, observation)]

IterationCriteriaBeforeUpdate(st0, action, outcome) ==
    IF outcome = "policy" THEN Raise(st0, "policy", <<>>)
    ELSE LET st1 == AppendAction(st0, action) IN
    IF outcome = "observe" THEN Raise(st1, "observe", <<"policy">>)
    ELSE LET observation == Observe(action)
             st2 == AppendObservation(st1, observation) IN
    IF outcome = "update" THEN Raise(st2, "update", <<"policy", "observe">>)
    ELSE CHOOSE r \in
             {[st |-> [u.st EXCEPT !.belief = u.belief,
                                   !.has_converged = hc.st.has_converged,
                                   !.stopping_criterion = hc.st.stopping_criterion],
               gen |-> "suspended", flag |-> hc.flag, ret |-> hc.ret,
               err |-> "none",
               tr |-> <<"policy", "observe">>
                          \o Repeat("criterion", Len(hc.evaluated)) \o <<"update">>,
               called |-> TRUE, evaluated |-> hc.evaluated] :
                  hc \in {HasConverged(st2)},
                  u \in {Update(st2, st2.belief, action, observation, NoNoise)}} : TRUE

\* solve_iterator, one pass through the body of the while loop up to the yield;
\* outcome tells which component, if any, raises
Iteration(st0, action, outcome) ==
    IF outcome = "policy" THEN Raise(st0, "policy", <<>>)
    ELSE LET st1 == AppendAction(st0, action) IN
    IF outcome = "observe" THEN Raise(st1, "observe", <<"policy">>)
    ELSE LET observation == Observe(action)
             st2 == AppendObservation(st1, observation) IN
    IF outcome = "update" THEN Raise(st2, "update", <<"policy", "observe">>)
    ELSE CHOOSE r \in
             {[st |-> hc.st, gen |-> "suspended", flag |-> hc.flag, ret |-> hc.ret,
               err |-> "none",
               tr |-> <<"policy", "observe", "update">>
                          \o Repeat("criterion", Len(hc.evaluated)),
               called |-> TRUE, evaluated |-> hc.evaluated] :
                  hc \in {HasConverged([u.st EXCEPT !.belief = u.belief]) :
                              u \in {Update(st2, st2.belief, action, observation,
                                            NoNoise)}}} : TRUE

Outcomes == {"ok", "policy", "observe", "update"}

\* solve: what the call has produced once the generator has stopped
SolveResult(g, e) ==
    CASE g = "raised" -> [kind |-> "raise", error |-> e]
      [] g = "done" -> [kind |-> "raise", error |-> "NotImplementedError"]
      [] OTHER -> [kind |-> "running", error |-> "none"]

\* no component has been called directly
NoCall == [op |-> "none"]

NoRet == [kind |-> "none"]

Init ==
    /\ problem \in Problems
    /\ prior \in Priors
    /\ stopping_criteria \in CritLists
    /\ driver \in {"solve", "caller"}
    /\ solver_state = LinearSolverState
    /\ gen = "created"
    /\ loc_has_converged = FALSE
    /\ loc_solver_state = "state"
    /\ yielded = "nothing"
    /\ solve_local = "unbound"
    /\ result = [kind |-> "running", error |-> "none"]
    /\ err = "none"
    /\ trace = <<>>
    /\ yields = 0
    /\ prev = LinearSolverState
    /\ lastAction = ZeroVec
    /\ lastObs = ZeroVec
    /\ lastEval = <<>>
    /\ lastRet = [flag |-> FALSE, ret |-> "state"]
    /\ ext = 0
    /\ call = NoCall
    /\ ret = NoRet
    /\ belief = None
    /\ belief_update = None
    /\ calls = 0
    /\ runs = <<>>

EntryConvergedAtOnce ==
    IF gen = "created"
    THEN [st |-> LinearSolverState, flag |-> TRUE, ret |-> "state",
          tr |-> <<>>, called |-> FALSE, evaluated |-> <<>>]
    ELSE [st |-> solver_state, flag |-> loc_has_converged, ret |-> loc_solver_state,
          tr |-> <<>>, called |-> FALSE, evaluated |-> <<>>]

\* what a next() finds when it enters or resumes the generator: on the first
\* call the setup and the first has_converged, later the suspended frame
Entry ==
    IF gen = "created"
    THEN LET hc == HasConverged(LinearSolverState)
         IN  [st |-> hc.st, flag |-> hc.flag, ret |-> hc.ret,
              tr |-> Repeat("criterion", Len(hc.evaluated)),
              called |-> TRUE, evaluated |-> hc.evaluated]
    ELSE [st |-> solver_state, flag |-> loc_has_converged, ret |-> loc_solver_state,
          tr |-> <<>>, called |-> FALSE, evaluated |-> <<>>]

\* next(generator) finds the while condition false: StopIteration
Exhaust ==
    /\ gen \in {"created", "suspended"}
    /\ \E en \in {Entry} :
          /\ en.flag
          /\ solver_state' = en.st
          /\ gen' = "done"
          /\ loc_has_converged' = en.flag
          /\ loc_solver_state' = en.ret
          /\ trace' = trace \o en.tr
          /\ lastEval' = IF en.called THEN en.evaluated ELSE lastEval
          /\ lastRet' = IF en.called THEN [flag |-> en.flag, ret |-> en.ret]
                        ELSE lastRet
    /\ result' = IF driver = "solve" THEN SolveResult("done", err) ELSE result
    /\ UNCHANGED <<problem, prior, stopping_criteria, driver, yielded, solve_local,
                   err, yields, prev, lastAction, lastObs, ext>>
    /\ UNCHANGED opvars

\* next(generator) runs one iteration: up to the yield, or to an exception
Step ==
    /\ gen \in {"created", "suspended"}
    /\ \E en \in {Entry} :
          /\ ~en.flag
          /\ Len(en.st.actions) < MaxSteps
          /\ \E action \in Actions, outcome \in Outcomes :
                \E it \in {Iteration(en.st, action, outcome)} :
                    /\ solver_state' = it.st
                    /\ gen' = it.gen
                    /\ loc_has_converged' = it.flag
                    /\ loc_solver_state' = it.ret
                    /\ err' = it.err
                    /\ trace' = trace \o en.tr \o it.tr
                    /\ lastEval' = IF it.called THEN it.evaluated
                                   ELSE IF en.called THEN en.evaluated ELSE lastEval
                    /\ lastRet' = IF it.called THEN [flag |-> it.flag, ret |-> it.ret]
                                  ELSE IF en.called
                                       THEN [flag |-> en.flag, ret |-> en.ret]
                                       ELSE lastRet
                    /\ yielded' = IF it.gen = "suspended" THEN it.ret ELSE yielded
                    /\ solve_local' = IF it.gen = "suspended" /\ driver = "solve"
                                      THEN it.ret ELSE solve_local
                    /\ yields' = IF it.gen = "suspended" THEN yields + 1 ELSE yields
                    /\ prev' = en.st
                    /\ lastAction' = IF outcome # "policy" THEN action ELSE lastAction
                    /\ lastObs' = IF outcome \in {"ok", "update"} THEN Observe(action)
                                  ELSE lastObs
                    /\ result' = IF driver = "solve" THEN SolveResult(it.gen, it.err)
                                 ELSE result
    /\ UNCHANGED <<problem, prior, stopping_criteria, driver, ext>>
    /\ UNCHANGED opvars

\* the caller of solve_iterator calls has_converged on the state it was handed
CallHasConverged ==
    /\ driver = "caller"
    /\ gen # "created"
    /\ yielded = "state" \/ yields >= 2
    /\ ext < MaxExtCalls
    /\ \E hc \in {HasConverged(solver_state)} :
          /\ solver_state' = hc.st
          /\ trace' = trace \o Repeat("criterion", Len(hc.evaluated))
          /\ lastEval' = hc.evaluated
          /\ lastRet' = [flag |-> hc.flag, ret |-> hc.ret]
    /\ ext' = ext + 1
    /\ UNCHANGED <<problem, prior, stopping_criteria, driver, gen, loc_has_converged,
                   loc_solver_state, yielded, solve_local, result, err, yields,
                   prev, lastAction, lastObs>>
    /\ UNCHANGED opvars

Next == Exhaust \/ Step \/ CallHasConverged

Spec == Init /\ [][Next]_vars

(***************************************************************************)
(* Random variables and linear operators of the beliefs.  A linear         *)
(* operator is kept with its class (kind) and its matrix M.                *)
(***************************************************************************)
\* a call returns a value, or raises an exception
Returned(value) == [kind |-> "return", value |-> value]

Raised(error) == [kind |-> "raise", error |-> error]

\* rvs.Normal(mean, cov)
Normal(mean, cov) == [mean |-> mean, cov |-> cov]

\* linops.SymmetricKronecker(A=W), kept as its factor W
SymmetricKronecker(W) == [A |-> W]

\* a numpy array: it has no inv()
ndarray(M) == [kind |-> "ndarray", M |-> M]

\* linops.MatrixMult(A=M)
MatrixMult(M) == [kind |-> "MatrixMult", M |-> M]

\* linops.ScalarMult(scalar, shape)
ScalarMult(scalar) ==
    [kind |-> "ScalarMult", scalar |-> scalar, M |-> MatScale(scalar, Identity)]

\* linops.Identity(shape)
IdentityOp == [kind |-> "Identity", M |-> Identity]

\* np.finfo(float).eps, kept as a symbol
MachineEps == [float |-> "eps"]

\* linops.ScalarMult(scalar=np.finfo(float).eps, shape)
ScalarMultEps == [kind |-> "ScalarMult", scalar |-> MachineEps]

InducedSolutionCovNoRankOneTrace(Ainv, b) ==
    LET W == Ainv.cov.A.M
        Wb == MatVec(W, b)
        bWb == Dot(Wb, b)
        _mv(v) == VScale(Half, VAdd(VScale(bWb, MatVec(W, v)),
                                    VScale(Dot(Wb, v), Wb)))
    IN  [kind |-> "LinearOperator",
         M |-> Transpose([j \in Idx |-> _mv([i \in Idx |-> IF i = j THEN One ELSE Zero])]),
         trace |-> RMul(Half, RMul(bWb, Trace(W)))]

\* _induced_solution_cov: the operator x_cov, with the matrix of its matvec _mv
\* and the value of its trace()
InducedSolutionCov(Ainv, b) ==
    LET W == Ainv.cov.A.M
        Wb == MatVec(W, b)
        bWb == Dot(Wb, b)
        _mv(v) == VScale(Half, VAdd(VScale(bWb, MatVec(W, v)),
                                    VScale(Dot(Wb, v), Wb)))
    IN  [kind |-> "LinearOperator",
         M |-> Transpose([j \in Idx |-> _mv([i \in Idx |-> IF i = j THEN One ELSE Zero])]),
         trace |-> RMul(Half, RAdd(RMul(bWb, Trace(W)), Dot(Wb, Wb)))]

\* _induced_solution_belief
InducedSolutionBelief(Ainv, b) ==
    Normal(MatVec(Ainv.mean.M, b), InducedSolutionCov(Ainv, b))

\* rvs.asrandvar(b) of an array: a constant random variable
Constant(value) == [type |-> "Constant", mean |-> value]

(***************************************************************************)
(* SymmetricLinearSystemBelief                                             *)
(***************************************************************************)
\* SymmetricLinearSystemBelief(x, A, Ainv, b)
SymmetricLinearSystemBelief(x, A, Ainv, b) ==
    [type |-> "SymmetricLinearSystemBelief", x |-> x, A |-> A, Ainv |-> Ainv, b |-> b]

\* SymmetricLinearSystemBelief.from_inverse, Ainv0 not a random variable
SymmetricLinearSystemBelief_from_inverse(Ainv0, prob) ==
    LET Ainv == Normal(Ainv0, SymmetricKronecker(Ainv0))
        A0 == Normal(ndarray(prob.A), SymmetricKronecker(ndarray(prob.A)))
    IN  SymmetricLinearSystemBelief(InducedSolutionBelief(Ainv, prob.b), A0, Ainv,
                                    Constant(prob.b))

MatrixModelUpdateComponentsWholeProjection(belief_matrix, action, observation) ==
    LET Ws == MatVec(belief_matrix.cov.A.M, action)
        delta_A == VSub(observation, MatVec(belief_matrix.mean.M, action))
        sWs == Dot(action, Ws)
        u == [i \in Idx |-> RDiv(Ws[i], sWs)]
        v == VSub(delta_A, VScale(Dot(action, delta_A), u))
    IN  [u |-> u, v |-> v, Ws |-> Ws]

\* _matrix_model_update_components: u = Ws / (s'Ws), v = delta - (s'delta)/2 u
MatrixModelUpdateComponents(belief_matrix, action, observation) ==
    LET Ws == MatVec(belief_matrix.cov.A.M, action)
        delta_A == VSub(observation, MatVec(belief_matrix.mean.M, action))
        sWs == Dot(action, Ws)
        u == [i \in Idx |-> RDiv(Ws[i], sWs)]
        v == VSub(delta_A, VScale(RMul(Half, Dot(action, delta_A)), u))
    IN  [u |-> u, v |-> v, Ws |-> Ws]

\* _matrix_model_mean_update_op: x -> u (v'x) + v (u'x)
MatrixModelMeanUpdateOp(u, v) == MatAdd(Outer(u, v), Outer(v, u))

\* _matrix_model_covariance_factor_update_op: x -> Ws (u'x)
MatrixModelCovarianceFactorUpdateOp(u, Ws) == Outer(Ws, u)

\* A_update_terms
A_update_terms(belief_A, action, observation) ==
    CHOOSE r \in
        {[mean_update |-> MatrixModelMeanUpdateOp(c.u, c.v),
          cov_update |-> MatrixModelCovarianceFactorUpdateOp(c.u, c.Ws)] :
             c \in {MatrixModelUpdateComponents(belief_A, action, observation)}} : TRUE

\* Ainv_update_terms: the observation in the place of the action
Ainv_update_terms(belief_Ainv, action, observation) ==
    CHOOSE r \in
        {[mean_update |-> MatrixModelMeanUpdateOp(c.u, c.v),
          cov_update |-> MatrixModelCovarianceFactorUpdateOp(c.u, c.Ws)] :
             c \in {MatrixModelUpdateComponents(belief_Ainv, observation, action)}} : TRUE

\* the cached property A of the belief update
UpdatedA(bel, action, observation) ==
    CHOOSE r \in
        {Normal(MatrixMult(MatAdd(bel.A.mean.M, t.mean_update)),
                SymmetricKronecker(MatrixMult(MatSub(bel.A.cov.A.M, t.cov_update)))) :
             t \in {A_update_terms(bel.A, action, observation)}} : TRUE

\* the cached property Ainv of the belief update
UpdatedAinv(bel, action, observation) ==
    CHOOSE r \in
        {Normal(MatrixMult(MatAdd(bel.Ainv.mean.M, t.mean_update)),
                SymmetricKronecker(MatrixMult(MatSub(bel.Ainv.cov.A.M, t.cov_update)))) :
             t \in {Ainv_update_terms(bel.Ainv, action, observation)}} : TRUE

\* belief_update(): the tuple (x, Ainv, A, b, solver_state) of the updated
\* beliefs; the solution keeps its covariance and moves its mean by the step
BeliefUpdateCall(prob, bel, action, observation, st) ==
    CHOOSE r \in
        {[x |-> Normal(ux.x, bel.x.cov),
          Ainv |-> UpdatedAinv(bel, action, observation),
          A |-> UpdatedA(bel, action, observation),
          b |-> bel.b,
          solver_state |-> ux.st] :
             ux \in {UpdatedBeliefX(st, bel.x.mean, action, observation, NoNoise)}} :
        TRUE

SymmetricLinearSystemBelief_updateAnyOperator(self, prob, observation_op, action, observation, st) ==
    LET bu == BeliefUpdateCall(prob, self, action, observation, st)
    IN  [self |-> [self EXCEPT !.x = bu.x, !.Ainv = bu.Ainv, !.A = bu.A, !.b = bu.b],
         solver_state |-> bu.solver_state,
         raised |-> IF observation_op = "MatVecObservation" THEN "none"
                    ELSE "NotImplementedError"]

\* SymmetricLinearSystemBelief.update: the belief object and the solver state
\* after the call, and the exception raised, if any
SymmetricLinearSystemBelief_update(self, prob, observation_op, action, observation, st) ==
    IF observation_op = "MatVecObservation"
    THEN CHOOSE r \in
             {[self |-> [self EXCEPT !.x = bu.x, !.Ainv = bu.Ainv, !.A = bu.A,
                                     !.b = bu.b],
               solver_state |-> bu.solver_state, raised |-> "none"] :
                  bu \in {BeliefUpdateCall(prob, self, action, observation, st)}} :
             TRUE
    ELSE [self |-> self, solver_state |-> st, raised |-> "NotImplementedError"]

(***************************************************************************)
(* OrthogonalProjection and WeakMeanCorrespondenceBelief, for a subspace   *)
(* basis of one column (at most one action and observation)                *)
(***************************************************************************)
\* OrthogonalProjection(subspace_basis, is_orthonormal, innerprod_matrix) with
\* the matrix of its _matvec: x -> basis (transformed_basis' (D x))
OrthogonalProjection(subspace_basis, is_orthonormal, innerprod_matrix) ==
    LET basis == subspace_basis[1]
        D == IF innerprod_matrix = None THEN IdentityOp ELSE innerprod_matrix[1]
        transformed_basis ==
            IF is_orthonormal THEN basis
            ELSE LET d == Dot(basis, MatVec(D.M, basis))
                 IN  [i \in Idx |-> RDiv(basis[i], d)]
    IN  [kind |-> "OrthogonalProjection", subspace_basis |-> subspace_basis,
         is_orthonormal |-> is_orthonormal, innerprod_matrix |-> D,
         M |-> MatMul(Outer(basis, transformed_basis), D.M)]

(***************************************************************************)
(* OrthogonalProjection with the Euclidean inner product onto the span of  *)
(* unit vectors, and its rank, cond, det and logabsdet.  Python compares   *)
(* values of different types as unequal, so values carry their type.       *)
(***************************************************************************)
\* np.inf and -np.inf
inf == <<1, 0>>

neginf == <<-1, 0>>

PyInt(i) == [type |-> "int", value |-> i]

PyTuple(t) == [type |-> "tuple", value |-> t]

\* a != b of an int or a tuple a and an int or a tuple b
PyNotEqual(a, b) == a.type # b.type \/ a.value # b.value

\* scipy.linalg.orth of a matrix whose columns are unit vectors: an orthonormal
\* basis of its range, one column for every unit vector among the columns
orth(columns) ==
    SelectSeq([i \in Idx |-> UnitVec(i)],
              LAMBDA e : \E c \in 1..Len(columns) : columns[c] = e)

\* OrthogonalProjection(subspace_basis, is_orthonormal=True), subspace_basis the
\* sequence of its columns: a spanning set of n or more columns is replaced by
\* an orthonormal basis of its range; _matvec is x -> x for the Euclidean inner
\* product and n or more stored columns, and x -> basis (basis' x) otherwise
OrthogonalProjectionOrthonormal(subspace_basis) ==
    LET basis == IF Len(subspace_basis) >= N THEN orth(subspace_basis)
                 ELSE subspace_basis
    IN  [kind |-> "OrthogonalProjection", subspace_basis |-> basis,
         is_orthonormal |-> TRUE, innerprod_matrix |-> IdentityOp,
         shape |-> <<N, N>>,
         M |-> IF Len(basis) >= N THEN Identity
               ELSE [i \in Idx |-> [j \in Idx |->
                        SumTo([c \in 1..Len(basis) |-> RMul(basis[c][i], basis[c][j])],
                              Len(basis))]]]

\* OrthogonalProjection.rank: subspace_basis.shape[1]
OrthogonalProjection_rank(self) == Len(self.subspace_basis)

\* OrthogonalProjection.cond
OrthogonalProjection_cond(self) ==
    IF PyNotEqual(PyInt(OrthogonalProjection_rank(self)), PyTuple(self.shape))
    THEN inf ELSE One

\* OrthogonalProjection.det
OrthogonalProjection_det(self) ==
    IF PyNotEqual(PyInt(OrthogonalProjection_rank(self)), PyTuple(self.shape))
    THEN Zero ELSE One

\* OrthogonalProjection.logabsdet
OrthogonalProjection_logabsdet(self) ==
    IF PyNotEqual(PyInt(OrthogonalProjection_rank(self)), PyTuple(self.shape))
    THEN neginf ELSE Zero

\* UncertaintyScales(Phi, Psi)
UncertaintyScales(Phi, Psi) == [Phi |-> Phi, Psi |-> Psi]

\* _cov_factor_matrix: W_A = Y (S'Y)^-1 Y' + Phi (I - P_S), or Phi I
CovFactorMatrix(A0, uncertainty_scales, actions, observations, action_obs_innerprods) ==
    IF actions = None \/ observations = None
    THEN ScalarMult(uncertainty_scales.Phi)
    ELSE LET s == actions[1][1]
             y == observations[1][1]
             innerprod == IF action_obs_innerprods = None THEN Dot(s, y)
                          ELSE action_obs_innerprods[1][1]
             action_proj == OrthogonalProjection(actions[1], FALSE, None)
             action_space_op == Outer([i \in Idx |-> RDiv(y[i], innerprod)], y)
             orthogonal_space_op ==
                 MatScale(uncertainty_scales.Phi, MatSub(Identity, action_proj.M))
         IN  [kind |-> "LinearOperator",
              M |-> MatAdd(action_space_op, orthogonal_space_op)]

CovFactorInverseWithPhi(A0, Ainv0, uncertainty_scales, actions, observations) ==
    IF actions = None \/ observations = None
    THEN ScalarMult(uncertainty_scales.Phi)
    ELSE LET observation_proj == OrthogonalProjection(observations[1], FALSE, None)
             observation_space_op ==
                 IF Ainv0.kind = "ScalarMult"
                 THEN MatScale(Ainv0.scalar, observation_proj.M)
                 ELSE MatMul(Ainv0.M,
                             OrthogonalProjection(observations[1], FALSE,
                                                  Some(Ainv0)).M)
             orthogonal_space_op ==
                 MatScale(uncertainty_scales.Phi,
                          MatSub(Identity, observation_proj.M))
         IN  [kind |-> "LinearOperator",
              M |-> MatAdd(observation_space_op, orthogonal_space_op)]

\* _cov_factor_inverse: W_H = H0 Y (Y'H0 Y)^-1 Y'H0 + Psi (I - P_Y), or Psi I
CovFactorInverse(A0, Ainv0, uncertainty_scales, actions, observations) ==
    IF actions = None \/ observations = None
    THEN ScalarMult(uncertainty_scales.Psi)
    ELSE LET observation_proj == OrthogonalProjection(observations[1], FALSE, None)
             observation_space_op ==
                 IF Ainv0.kind = "ScalarMult"
                 THEN MatScale(Ainv0.scalar, observation_proj.M)
                 ELSE MatMul(Ainv0.M,
                             OrthogonalProjection(observations[1], FALSE,
                                                  Some(Ainv0)).M)
             orthogonal_space_op ==
                 MatScale(uncertainty_scales.Psi,
                          MatSub(Identity, observation_proj.M))
         IN  [kind |-> "LinearOperator",
              M |-> MatAdd(observation_space_op, orthogonal_space_op)]

\* WeakMeanCorrespondenceBelief(A0, Ainv0, b, uncertainty_scales, actions,
\* observations, action_obs_innerprods)
WeakMeanCorrespondenceBelief(A0, Ainv0, b, uncertainty_scales, actions, observations, action_obs_innerprods) ==
    LET none == actions = None \/ observations = None
        self_actions == IF none THEN None ELSE actions
        self_observations == IF none THEN None ELSE observations
        cov_factor_A == CovFactorMatrix(A0, uncertainty_scales, self_actions,
                                        self_observations, action_obs_innerprods)
        cov_factor_Ainv == CovFactorInverse(A0, Ainv0, uncertainty_scales,
                                            self_actions, self_observations)
        A == Normal(A0, SymmetricKronecker(cov_factor_A))
        Ainv == Normal(Ainv0, SymmetricKronecker(cov_factor_Ainv))
    IN  [type |-> "WeakMeanCorrespondenceBelief", A0 |-> A0, Ainv0 |-> Ainv0,
         uncertainty_scales |-> uncertainty_scales, actions |-> self_actions,
         observations |-> self_observations,
         x |-> InducedSolutionBelief(Ainv, b.mean), Ainv |-> Ainv, A |-> A, b |-> b]

\* the default uncertainty_scales of the constructor
DefaultScales == UncertaintyScales(One, One)

\* WeakMeanCorrespondenceBelief.from_matrices
WeakMeanCorrespondenceBelief_from_matrices(A0, Ainv0, prob, actions, observations) ==
    WeakMeanCorrespondenceBelief(A0, Ainv0, Constant(prob.b), DefaultScales, actions,
                                 observations, None)

WeakMeanCorrespondenceBelief_from_scalarAllowsZero(scalar, prob) ==
    IF ~IsFinite(scalar) \/ scalar[1] < 0 THEN Raised("ValueError")
    ELSE LET A0 == ScalarMult(scalar)
             Ainv0 == ScalarMult(RDiv(One, scalar))
         IN  Returned(WeakMeanCorrespondenceBelief_from_matrices(A0, Ainv0, prob,
                                                                None, None))

\* WeakMeanCorrespondenceBelief.from_scalar: what the call returns or raises
WeakMeanCorrespondenceBelief_from_scalar(scalar, prob) ==
    IF RLeq(scalar, Zero) THEN Raised("ValueError")
    ELSE LET A0 == ScalarMult(scalar)
             Ainv0 == ScalarMult(RDiv(One, scalar))
         IN  Returned(WeakMeanCorrespondenceBelief_from_matrices(A0, Ainv0, prob,
                                                                None, None))

(***************************************************************************)
(* from_inverse of the belief classes                                      *)
(***************************************************************************)
\* whether Ainv0.inv() exists: an array has no such attribute
HasInv(op) == op.kind # "ndarray"

\* Ainv0.inv() of a linear operator
Inv(op) ==
    IF op.kind = "ScalarMult" THEN ScalarMult(RDiv(One, op.scalar))
    ELSE IF op.kind = "Identity" THEN IdentityOp
    ELSE MatrixMult(MatInv(op.M))

\* WeakMeanCorrespondenceBelief.from_inverse
WeakMeanCorrespondenceBelief_from_inverse(Ainv0, prob) ==
    IF ~HasInv(Ainv0) THEN Raised("TypeError")
    ELSE Returned(WeakMeanCorrespondenceBelief(Inv(Ainv0), Ainv0, Constant(prob.b),
                                               DefaultScales, None, None, None))

\* NoisyLinearSystemBelief(x, A, Ainv, b, noise_A, noise_b)
NoisyLinearSystemBelief(x, A, Ainv, b, noise_A, noise_b) ==
    [type |-> "NoisyLinearSystemBelief", x |-> x, A |-> A, Ainv |-> Ainv, b |-> b,
     noise_A |-> noise_A, noise_b |-> noise_b]

\* NoisyLinearSystemBelief.from_inverse, Ainv0 not a random variable
NoisyLinearSystemBelief_from_inverse(Ainv0, prob) ==
    LET Ainv == Normal(Ainv0, SymmetricKronecker(Ainv0))
    IN  IF ~HasInv(Ainv0) THEN Raised("TypeError")
        ELSE Returned(NoisyLinearSystemBelief(
                          InducedSolutionBelief(Ainv, prob.b),
                          Normal(Inv(Ainv0), SymmetricKronecker(Inv(Ainv0))),
                          Ainv, Constant(prob.b), None, None))

\* SymmetricNormalLinearSystemBelief.from_inverse, Ainv0 not a random variable
SymmetricNormalLinearSystemBelief_from_inverse(Ainv0, prob) ==
    LET Ainv == Normal(Ainv0, SymmetricKronecker(Ainv0))
        A == Normal(ndarray(prob.A), SymmetricKronecker(ndarray(prob.A)))
    IN  Returned(SymmetricNormalLinearSystemBelief(None, Ainv, A, Constant(prob.b)))

\* cls.from_inverse(Ainv0, problem) of the belief class cls
FromInverse(cls, Ainv0, prob) ==
    IF cls = "WeakMeanCorrespondenceBelief"
    THEN WeakMeanCorrespondenceBelief_from_inverse(Ainv0, prob)
    ELSE IF cls = "NoisyLinearSystemBelief"
    THEN NoisyLinearSystemBelief_from_inverse(Ainv0, prob)
    ELSE IF cls = "SymmetricNormalLinearSystemBelief"
    THEN SymmetricNormalLinearSystemBelief_from_inverse(Ainv0, prob)
    ELSE Returned(SymmetricLinearSystemBelief_from_inverse(Ainv0, prob))

(***************************************************************************)
(* from_solution                                                           *)
(***************************************************************************)
\* _belief_means_from_solution(x0, problem, check_for_better_x0): for b = 0 the
\* better initial guess is x0 = b; otherwise A0 is the identity and Ainv0 is
\* chosen with Ainv0 b = x0: Ainv0 = alpha I + 2/(b'x0) u u', u = x0 - alpha b,
\* alpha = b'x0 / (2 b'b)
BeliefMeansFromSolution(x0, prob, check_for_better_x0) ==
    IF check_for_better_x0 /\ prob.b = ZeroVec
    THEN [x0 |-> prob.b, Ainv0 |-> IdentityOp, A0 |-> IdentityOp, b0 |-> prob.b]
    ELSE LET bx0 == Dot(prob.b, x0)
             bb == Dot(prob.b, prob.b)
             alpha == RDiv(RMul(Half, bx0), bb)
             u == VSub(x0, VScale(alpha, prob.b))
         IN  [x0 |-> x0,
              Ainv0 |-> [kind |-> "LinearOperator",
                         M |-> MatAdd(MatScale(alpha, Identity),
                                      MatScale(RDiv(<<2, 1>>, bx0), Outer(u, u)))],
              A0 |-> IdentityOp, b0 |-> prob.b]

SymmetricLinearSystemBelief_from_solutionNoShortcut(x0_, prob, check_for_better_x0) ==
    LET m == BeliefMeansFromSolution(x0_, prob, check_for_better_x0)
        Ainv == Normal(m.Ainv0, SymmetricKronecker(m.Ainv0))
        A == Normal(m.A0, SymmetricKronecker(ndarray(prob.A)))
    IN  SymmetricLinearSystemBelief(
            Normal(m.x0, InducedSolutionCov(Ainv, prob.b)), A, Ainv,
            Constant(prob.b))

\* SymmetricLinearSystemBelief.from_solution
SymmetricLinearSystemBelief_from_solution(x0_, prob, check_for_better_x0) ==
    CHOOSE r \in
        {IF check_for_better_x0 /\ m.x0 = prob.b
         THEN SymmetricLinearSystemBelief(
                  Normal(m.x0, ScalarMultEps),
                  Normal(m.A0, SymmetricKronecker(m.A0)),
                  Normal(m.A0, SymmetricKronecker(m.A0)),
                  Constant(prob.b))
         ELSE SymmetricLinearSystemBelief(
                  Normal(m.x0,
                         InducedSolutionCov(
                             Normal(m.Ainv0, SymmetricKronecker(m.Ainv0)), prob.b)),
                  Normal(m.A0, SymmetricKronecker(ndarray(prob.A))),
                  Normal(m.Ainv0, SymmetricKronecker(m.Ainv0)),
                  Constant(prob.b)) :
             m \in {BeliefMeansFromSolution(x0_, prob, check_for_better_x0)}} : TRUE

\* SymmetricNormalLinearSystemBelief.from_solution
SymmetricNormalLinearSystemBelief_from_solution(x0_, prob, check_for_better_x0) ==
    CHOOSE r \in
        {IF check_for_better_x0 /\ m.x0 = prob.b
         THEN SymmetricNormalLinearSystemBelief(
                  Some(Normal(m.x0, ScalarMultEps)),
                  Normal(m.A0, SymmetricKronecker(m.A0)),
                  Normal(m.A0, SymmetricKronecker(m.A0)),
                  Constant(m.b0))
         ELSE SymmetricNormalLinearSystemBelief(
                  None,
                  Normal(m.Ainv0, SymmetricKronecker(m.Ainv0)),
                  Normal(m.A0, SymmetricKronecker(ndarray(prob.A))),
                  Constant(m.b0)) :
             m \in {BeliefMeansFromSolution(x0_, prob, check_for_better_x0)}} : TRUE

\* cls.from_solution(x0, problem, check_for_better_x0) of the belief class cls
FromSolution(cls, x0_, prob, check_for_better_x0) ==
    IF cls = "SymmetricNormalLinearSystemBelief"
    THEN SymmetricNormalLinearSystemBelief_from_solution(x0_, prob, check_for_better_x0)
    ELSE SymmetricLinearSystemBelief_from_solution(x0_, prob, check_for_better_x0)

\* belief.x: a belief constructed with x = None has the solution belief induced
\* by Ainv and b
SolutionBelief(bel) ==
    IF bel.x = None THEN InducedSolutionBelief(bel.Ainv, bel.b.mean)
    ELSE IF bel.type = "SymmetricLinearSystemBelief" THEN bel.x
    ELSE bel.x[1]

(***************************************************************************)
(* WeakMeanCorrLinearObsBeliefUpdate                                       *)
(***************************************************************************)
\* WeakMeanCorrLinearObsBeliefUpdate(problem, prior): the object after
\* construction, with the attributes __call__ reads and writes
WeakMeanCorrLinearObsBeliefUpdate(prob, prior_) ==
    [_problem |-> prob, _prior |-> prior_, prior |-> prior_]

\* __call__(belief, action, observation, hyperparams) with solver_state = None,
\* up to the assignment of the solver state's prior: the object after the call
\* and the solver state it has built
WeakMeanCorrLinearObsBeliefUpdate_call(self, belief_, action, observation, hyperparams) ==
    LET st == [problem |-> self._problem, prior |-> self._prior, belief |-> belief_,
               data |-> [actions |-> <<action>>, observations |-> <<observation>>],
               cache |-> [action_observation_innerprod_list |->
                              <<Dot(action, observation)>>]]
        self_prior ==
            WeakMeanCorrespondenceBelief(
                st.prior.A0, st.prior.Ainv0, Constant(st.problem.b), hyperparams,
                Some(st.data.actions), Some(st.data.observations),
                Some(st.cache.action_observation_innerprod_list))
    IN  CHOOSE r \in {[self |-> [self EXCEPT !.prior = p],
                        solver_state |-> [st EXCEPT !.prior = p]] :
                           p \in {self_prior}} : TRUE

(***************************************************************************)
(* The components called directly: belief classes, belief updates and the  *)
(* observation operator, and a solver built on a from_solution prior       *)
(***************************************************************************)
\* system matrix with d on the diagonal and o above it (not symmetric)
UpperBidiag(d, o) ==
    [i \in Idx |-> IntVec([j \in Idx |-> IF i = j THEN d
                                          ELSE IF j = i + 1 THEN o ELSE 0])]

BeliefProblems == [A : Matrices \cup {UpperBidiag(2, 1)}, b : {ZeroVec, OnesVec}]

Noises == {LinearSystemNoise(a, b) : a \in {None, Some(Half)}, b \in {None, Some(One)}}

BeliefInit ==
    /\ problem \in BeliefProblems
    /\ prior = [x |-> ZeroVec]
    /\ stopping_criteria = <<ResidualNorm>>
    /\ driver = "caller"
    /\ solver_state = LinearSolverState
    /\ gen = "created"
    /\ loc_has_converged = FALSE
    /\ loc_solver_state = "state"
    /\ yielded = "nothing"
    /\ solve_local = "unbound"
    /\ result = [kind |-> "running", error |-> "none"]
    /\ err = "none"
    /\ trace = <<>>
    /\ yields = 0
    /\ prev = LinearSolverState
    /\ lastAction = ZeroVec
    /\ lastObs = ZeroVec
    /\ lastEval = <<>>
    /\ lastRet = [flag |-> FALSE, ret |-> "state"]
    /\ ext = 0
    /\ call = NoCall
    /\ ret = NoRet
    /\ belief \in {SymmetricLinearSystemBelief_from_inverse(H0, problem) :
                       H0 \in {IdentityOp, MatrixMult(Tridiag(2, 1))}}
    /\ belief_update \in
           {WeakMeanCorrLinearObsBeliefUpdate(
                problem, WeakMeanCorrespondenceBelief_from_scalar(One, problem).value)}
    /\ calls = 0
    /\ runs = <<>>

\* the variables an operation called directly leaves alone
enginevars == <<stopping_criteria, driver, gen, loc_has_converged, loc_solver_state,
                yielded, solve_local, result, err, trace, yields, prev, lastAction,
                lastObs, lastEval, lastRet, ext, runs>>

\* observation_op(problem, action, solver_state)
CallObserve ==
    /\ calls < MaxCalls
    /\ call.op \in {"none", "observe"}
    /\ gen = "created"
    /\ \E action \in Actions, st \in {None, Some(solver_state)} :
          \E r \in {MatVecObservation(problem, action, st)} :
              /\ call' = [op |-> "observe", problem |-> problem, action |-> action,
                          solver_state |-> st]
              /\ ret' = [kind |-> "return", value |-> r.observation,
                         action |-> r.action]
              /\ problem' = r.problem
              /\ solver_state' = IF st = None THEN solver_state ELSE r.solver_state[1]
    /\ calls' = calls + 1
    /\ UNCHANGED <<prior, belief, belief_update>>
    /\ UNCHANGED enginevars

\* belief_update.update(problem, belief, action, observation, hyperparams,
\* solver_state)
CallUpdate ==
    /\ calls < MaxCalls
    /\ call.op \in {"none", "update"}
    /\ gen = "created"
    /\ \E bel \in Priors, action \in Actions, hyperparams \in Noises :
          \E u \in {Update(solver_state, bel, action, MatVec(problem.A, action),
                           hyperparams)} :
              /\ call' = [op |-> "update", belief |-> bel, action |-> action,
                          hyperparams |-> hyperparams]
              /\ ret' = IF u.raised = "none" THEN Returned(u.belief)
                        ELSE Raised(u.raised)
              /\ solver_state' = u.st
    /\ calls' = calls + 1
    /\ UNCHANGED <<problem, prior, belief, belief_update>>
    /\ UNCHANGED enginevars

\* A run is up to MaxCalls calls of one of the components that write to an
\* object they are handed (the solver state, the belief, the belief update), or
\* one call of a constructor or function below, which changes nothing but what
\* it returns.

\* covariance factors and means of the matrix beliefs
CovFactors == {IdentityOp, MatrixMult(Tridiag(2, 1)), MatrixMult(UpperBidiag(1, 2))}

Means == {IdentityOp, MatrixMult(Tridiag(2, 1))}

\* _induced_solution_belief(Ainv, b)
CallInducedSolution ==
    /\ calls = 0
    /\ gen = "created"
    /\ \E mean \in Means, W \in CovFactors :
          \E Ainv \in {Normal(mean, SymmetricKronecker(W))} :
              /\ call' = [op |-> "induced_solution", Ainv |-> Ainv, b |-> problem.b]
              /\ ret' = Returned(InducedSolutionBelief(Ainv, problem.b))
    /\ calls' = MaxCalls
    /\ UNCHANGED <<problem, prior, solver_state, belief, belief_update>>
    /\ UNCHANGED enginevars

ObservationOps == {"MatVecObservation", "ObservationOperator"}

\* belief.update(problem, observation_op, action, observation, solver_state)
CallBeliefUpdate ==
    /\ calls < MaxCalls
    /\ call.op \in {"none", "belief.update"}
    /\ gen = "created"
    /\ \E observation_op \in ObservationOps, action \in Actions :
          \E r \in {SymmetricLinearSystemBelief_update(
                        belief, problem, observation_op, action,
                        MatVec(problem.A, action), solver_state)} :
              /\ call' = [op |-> "belief.update", observation_op |-> observation_op,
                          action |-> action, self |-> belief]
              /\ ret' = IF r.raised = "none" THEN Returned(r.solver_state)
                        ELSE Raised(r.raised)
              /\ belief' = r.self
              /\ solver_state' = r.solver_state
    /\ calls' = calls + 1
    /\ UNCHANGED <<problem, prior, belief_update>>
    /\ UNCHANGED enginevars

Scalars == {<<-1, 1>>, Zero, Half, One, <<2, 1>>}

\* WeakMeanCorrespondenceBelief.from_scalar(scalar, problem)
CallFromScalar ==
    /\ calls = 0
    /\ gen = "created"
    /\ \E scalar \in Scalars :
          /\ call' = [op |-> "from_scalar", scalar |-> scalar]
          /\ ret' = WeakMeanCorrespondenceBelief_from_scalar(scalar, problem)
    /\ calls' = MaxCalls
    /\ UNCHANGED <<problem, prior, solver_state, belief, belief_update>>
    /\ UNCHANGED enginevars

BeliefClasses == {"WeakMeanCorrespondenceBelief", "NoisyLinearSystemBelief",
                  "SymmetricNormalLinearSystemBelief", "SymmetricLinearSystemBelief"}

\* the inverse approximations H0 passed to from_inverse
InverseMeans == {ScalarMult(<<2, 1>>), MatrixMult(Tridiag(2, 1)), ndarray(Identity)}

\* cls.from_inverse(Ainv0, problem)
CallFromInverse ==
    /\ calls = 0
    /\ gen = "created"
    /\ \E cls \in BeliefClasses, Ainv0 \in InverseMeans :
          /\ call' = [op |-> "from_inverse", cls |-> cls, Ainv0 |-> Ainv0]
          /\ ret' = FromInverse(cls, Ainv0, problem)
    /\ calls' = MaxCalls
    /\ UNCHANGED <<problem, prior, solver_state, belief, belief_update>>
    /\ UNCHANGED enginevars

\* the uncertainty scales, prior means and action lists of the constructor calls
ScalesSet == {DefaultScales, UncertaintyScales(<<2, 1>>, Half)}

PriorMeans == {IdentityOp, ScalarMult(<<2, 1>>), MatrixMult(Tridiag(2, 1))}

ActionLists == {None} \cup {Some(<<s>>) : s \in Actions}

\* WeakMeanCorrespondenceBelief(A0, Ainv0, b, uncertainty_scales, actions,
\* observations)
CallWeakMeanCorrespondenceBelief ==
    /\ calls = 0
    /\ gen = "created"
    /\ \E A0 \in PriorMeans, Ainv0 \in PriorMeans, scales \in ScalesSet,
          actions \in ActionLists, observations \in ActionLists :
          /\ (actions # None /\ observations # None) =>
                 observations[1][1] = MatVec(problem.A, actions[1][1])
          /\ call' = [op |-> "WeakMeanCorrespondenceBelief", A0 |-> A0,
                      Ainv0 |-> Ainv0, uncertainty_scales |-> scales,
                      actions |-> actions, observations |-> observations]
          /\ ret' = Returned(WeakMeanCorrespondenceBelief(
                                 A0, Ainv0, Constant(problem.b), scales, actions,
                                 observations, None))
    /\ calls' = MaxCalls
    /\ UNCHANGED <<problem, prior, solver_state, belief, belief_update>>
    /\ UNCHANGED enginevars

\* the initial guesses passed to from_solution
Guesses == {ZeroVec, OnesVec, UnitVec(1)}

\* cls.from_solution(x0, problem), the belief being handed to the solver as its
\* prior; for b /= 0 the guess has b'x0 > 0
CallFromSolution ==
    /\ calls = 0
    /\ gen = "created"
    /\ \E cls \in {"SymmetricNormalLinearSystemBelief", "SymmetricLinearSystemBelief"},
          x0_ \in Guesses :
          /\ problem.b = ZeroVec \/ ~RLeq(Dot(problem.b, x0_), Zero)
          /\ \E r \in {FromSolution(cls, x0_, problem, TRUE)} :
                /\ call' = [op |-> "from_solution", cls |-> cls, x0 |-> x0_]
                /\ ret' = Returned(r)
                /\ prior' = [x |-> SolutionBelief(r).mean]
                /\ solver_state' =
                       [solver_state EXCEPT
                            !.belief = [x |-> SolutionBelief(r).mean],
                            !.residual = VSub(MatVec(problem.A, SolutionBelief(r).mean),
                                              problem.b)]
    /\ calls' = MaxCalls
    /\ UNCHANGED <<problem, belief, belief_update>>
    /\ UNCHANGED enginevars

\* the solver runs on the belief from_solution returned
SolveExhaust == call.op = "from_solution" /\ Exhaust

SolveStep == call.op = "from_solution" /\ Step

\* belief_update(belief, action, observation, hyperparams)
CallWeakMeanCorrUpdate ==
    /\ calls < MaxCalls
    /\ call.op \in {"none", "belief_update"}
    /\ gen = "created"
    /\ \E action \in {UnitVec(1), OnesVec}, hyperparams \in ScalesSet :
          \E r \in {WeakMeanCorrLinearObsBeliefUpdate_call(
                        belief_update, belief_update._prior, action,
                        MatVec(problem.A, action), hyperparams)} :
              /\ call' = [op |-> "belief_update", action |-> action,
                          hyperparams |-> hyperparams]
              /\ ret' = Returned(r.solver_state)
              /\ belief_update' = r.self
    /\ calls' = calls + 1
    /\ UNCHANGED <<problem, prior, solver_state, belief>>
    /\ UNCHANGED enginevars

\* the cached properties A and Ainv of a belief update constructed for a
\* belief, an action and an observation
CallMatrixBeliefs ==
    /\ calls = 0
    /\ gen = "created"
    /\ \E A0 \in Means, H0 \in Means, W \in CovFactors, action \in Actions :
          \E observation \in Actions \cup {MatVec(problem.A, action)} :
              \E bel \in {SymmetricLinearSystemBelief(
                               Normal(ZeroVec, IdentityOp),
                               Normal(A0, SymmetricKronecker(W)),
                               Normal(H0, SymmetricKronecker(W)),
                               Constant(problem.b))} :
                  /\ call' = [op |-> "matrix_beliefs", belief |-> bel,
                              action |-> action, observation |-> observation]
                  /\ ret' = Returned([A |-> UpdatedA(bel, action, observation),
                                      Ainv |-> UpdatedAinv(bel, action, observation)])
    /\ calls' = MaxCalls
    /\ UNCHANGED <<problem, prior, solver_state, belief, belief_update>>
    /\ UNCHANGED enginevars

\* subspace bases of unit vectors: fewer than n distinct columns, or a spanning
\* set of n or n + 1 columns
SubspaceBases ==
    {q \in UNION {[1..k -> {UnitVec(i) : i \in Idx}] : k \in 1..(N + 1)} :
        Len(q) < N => \A i, j \in 1..Len(q) : i # j => q[i] # q[j]}

\* OrthogonalProjection(subspace_basis, is_orthonormal=True) and its cond(),
\* det() and logabsdet()
CallProjectionProperties ==
    /\ calls = 0
    /\ gen = "created"
    /\ \E subspace_basis \in SubspaceBases :
          \E P \in {OrthogonalProjectionOrthonormal(subspace_basis)} :
              /\ call' = [op |-> "projection", subspace_basis |-> subspace_basis,
                          self |-> P]
              /\ ret' = Returned([cond |-> OrthogonalProjection_cond(P),
                                  det |-> OrthogonalProjection_det(P),
                                  logabsdet |-> OrthogonalProjection_logabsdet(P)])
    /\ calls' = MaxCalls
    /\ UNCHANGED <<problem, prior, solver_state, belief, belief_update>>
    /\ UNCHANGED enginevars

BeliefNext ==
    \/ CallObserve
    \/ CallUpdate
    \/ CallInducedSolution
    \/ CallBeliefUpdate
    \/ CallFromScalar
    \/ CallFromInverse
    \/ CallWeakMeanCorrespondenceBelief
    \/ CallFromSolution
    \/ CallWeakMeanCorrUpdate
    \/ CallMatrixBeliefs
    \/ CallProjectionProperties
    \/ SolveExhaust
    \/ SolveStep

BeliefSpec == BeliefInit /\ [][BeliefNext]_vars

(***************************************************************************)
(* Two solve_iterator generators of one solver, stepped in any order.  The *)
(* solver's attributes (prior, stopping_criteria) and the problem are the  *)
(* objects both generators share; each generator has its own frame.        *)
(***************************************************************************)
RunIds == {1, 2}

\* a generator that has not been started; when it starts, its state's belief
\* is the object self.prior
NewRun ==
    [gen |-> "created", st |-> LinearSolverState, flag |-> FALSE, ret |-> "state",
     belief_obj |-> "prior", yields |-> 0]

\* what a next() finds when it enters or resumes the generator of a frame
RunEntry(f) ==
    IF f.gen = "created"
    THEN CHOOSE r \in {[st |-> hc.st, flag |-> hc.flag, ret |-> hc.ret] :
                           hc \in {HasConverged(LinearSolverState)}} : TRUE
    ELSE [st |-> f.st, flag |-> f.flag, ret |-> f.ret]

UpdateWritesBeliefPassed(belief_obj) == belief_obj

\* the object the belief update writes the updated belief to: update constructs
\* a belief and returns it, the belief it was passed is only read
UpdateWritesTo(belief_obj) == "new"

\* one iteration of a frame: the frame after the yield, and the object self.prior
RunIteration(f, action) ==
    CHOOSE r \in
        {[frame |-> [gen |-> it.gen, st |-> it.st, flag |-> it.flag, ret |-> it.ret,
                     belief_obj |-> UpdateWritesTo(f.belief_obj),
                     yields |-> f.yields + 1],
          prior |-> IF UpdateWritesTo(f.belief_obj) = "prior" THEN it.st.belief
                    ELSE prior] :
            it \in {Iteration(RunEntry(f).st, action, "ok")}} : TRUE

\* the state of a generator run alone on the given actions
RECURSIVE SoloState(_)
SoloState(acts) ==
    IF acts = <<>> THEN RunEntry(NewRun).st
    ELSE CHOOSE st \in {Iteration(st0, acts[Len(acts)], "ok").st :
                            st0 \in {SoloState(SubSeq(acts, 1, Len(acts) - 1))}} : TRUE

PairProblems == [A : {Tridiag(2, 1)}, b : {UnitVec(1), OnesVec}]

PairCritLists == {<<MaxIterations(N), ResidualNorm>>, <<MaxIterations(N), Custom(2)>>}

PairActions == {UnitVec(1), OnesVec}

PairInit ==
    /\ problem \in PairProblems
    /\ prior \in Priors
    /\ stopping_criteria \in PairCritLists
    /\ driver = "caller"
    /\ solver_state = LinearSolverState
    /\ gen = "created"
    /\ loc_has_converged = FALSE
    /\ loc_solver_state = "state"
    /\ yielded = "nothing"
    /\ solve_local = "unbound"
    /\ result = [kind |-> "running", error |-> "none"]
    /\ err = "none"
    /\ trace = <<>>
    /\ yields = 0
    /\ prev = LinearSolverState
    /\ lastAction = ZeroVec
    /\ lastObs = ZeroVec
    /\ lastEval = <<>>
    /\ lastRet = [flag |-> FALSE, ret |-> "state"]
    /\ ext = 0
    /\ call = NoCall
    /\ ret = NoRet
    /\ belief = None
    /\ belief_update = None
    /\ calls = 0
    /\ runs = [r \in RunIds |-> NewRun]

pairfixed == <<problem, stopping_criteria, driver, solver_state, gen, loc_has_converged,
               loc_solver_state, yielded, solve_local, result, err, trace, yields,
               prev, lastAction, lastObs, lastEval, lastRet, ext, call, ret, belief,
               belief_update, calls>>

\* next() on one of the generators runs one iteration up to the yield
PairStep ==
    /\ \E r \in RunIds :
          /\ runs[r].gen \in {"created", "suspended"}
          /\ \E en \in {RunEntry(runs[r])} :
                /\ ~en.flag
                /\ Len(en.st.actions) < MaxSteps
          /\ \E action \in PairActions :
                \E it \in {RunIteration(runs[r], action)} :
                    /\ runs' = [runs EXCEPT ![r] = it.frame]
                    /\ prior' = it.prior
    /\ UNCHANGED pairfixed

\* next() on one of the generators finds the while condition false
PairExhaust ==
    /\ \E r \in RunIds :
          /\ runs[r].gen \in {"created", "suspended"}
          /\ \E en \in {RunEntry(runs[r])} :
                /\ en.flag
                /\ runs' = [runs EXCEPT ![r] = [@ EXCEPT !.gen = "done", !.st = en.st,
                                                          !.flag = en.flag,
                                                          !.ret = en.ret]]
    /\ UNCHANGED prior
    /\ UNCHANGED pairfixed

PairNext == PairStep \/ PairExhaust

PairSpec == PairInit /\ [][PairNext]_vars

(***************************************************************************)
(* Properties                                                              *)
(***************************************************************************)
RECURSIVE Count(_, _)
Count(seq, x) ==
    IF seq = <<>> THEN 0
    ELSE (IF Head(seq) = x THEN 1 ELSE 0) + Count(Tail(seq), x)

SomeCriterionHolds(st) ==
    \E i \in DOMAIN stopping_criteria : CritHolds(stopping_criteria[i], st)

\* C1: the state produced by the k-th step of solve_iterator has iteration = k
C1_IterationEqualsStepCount ==
    gen = "suspended" => solver_state.iteration = yields

\* C2: at every yield the actions and observations of the state have the same
\* length, which is the number of belief updates applied so far, and their last
\* entries are the action and the observation obtained in that iteration
C2_HistoryConsistentAtYield ==
    gen = "suspended" =>
        LET k == Len(solver_state.actions)
        IN  /\ k = Len(solver_state.observations)
            /\ k = Count(trace, "update")
            /\ k >= 1
            /\ solver_state.actions[k] = lastAction
            /\ solver_state.observations[k] = lastObs

C2_Witness ==
    /\ gen = "suspended"
    /\ Len(solver_state.actions) = 2
    /\ solver_state.actions[1] # solver_state.actions[2]

\* C3: when a stopping criterion already holds on the initial state, solve
\* returns normally, calls no component, and hands back the prior belief and a
\* state with iteration 0, empty histories and has_converged set
C3_ConvergedPriorIsReturned ==
    (driver = "solve" /\ gen # "created" /\ SomeCriterionHolds(LinearSolverState)) =>
        /\ result.kind = "return"
        /\ solve_local = "state"
        /\ Count(trace, "policy") + Count(trace, "observe") + Count(trace, "update") = 0
        /\ solver_state.belief = prior
        /\ solver_state.iteration = 0
        /\ solver_state.actions = <<>>
        /\ solver_state.observations = <<>>
        /\ solver_state.has_converged

\* C4: with MaxIterations(cap) among the stopping criteria at most cap belief
\* updates are performed
C4_AtMostCapUpdates ==
    \A i \in DOMAIN stopping_criteria :
        stopping_criteria[i].kind = "MaxIterations" =>
            Count(trace, "update") <= stopping_criteria[i].param

\* C5: has_converged evaluates the criteria in list order up to and including
\* the first one that holds, records the name of that one, and the generator
\* stops exactly when some criterion holds on the state of the iteration
C5_FirstTrueCriterionStops ==
    /\ (lastEval # <<>> /\ gen \in {"suspended", "done"}) =>
          IF solver_state.has_converged
          THEN \E k \in DOMAIN stopping_criteria :
                  /\ CritHolds(stopping_criteria[k], solver_state)
                  /\ \A j \in 1..(k - 1) : ~CritHolds(stopping_criteria[j], solver_state)
                  /\ lastEval = UpTo(k)
                  /\ solver_state.stopping_criterion = ClassName(stopping_criteria[k])
          ELSE /\ lastEval = UpTo(Len(stopping_criteria))
               /\ ~SomeCriterionHolds(solver_state)
    /\ gen = "suspended" => (loc_has_converged <=> SomeCriterionHolds(solver_state))
    /\ gen = "done" => SomeCriterionHolds(solver_state)

C5_Witness ==
    /\ gen = "suspended"
    /\ solver_state.has_converged
    /\ Len(stopping_criteria) = 2
    /\ CritHolds(stopping_criteria[1], solver_state)
    /\ CritHolds(stopping_criteria[2], solver_state)
    /\ lastEval = <<1>>

\* C6: once has_converged is set, no step changes the state, evaluates a
\* criterion or updates the belief, and has_converged keeps returning true
C6_ConvergenceIsTerminal ==
    [][solver_state.has_converged =>
          /\ solver_state' = solver_state
          /\ Count(trace', "criterion") = Count(trace, "criterion")
          /\ Count(trace', "update") = Count(trace, "update")
          /\ (ext' # ext => lastRet'.flag /\ lastEval' = <<>>)]_vars

C6_Witness ==
    /\ solver_state.has_converged
    /\ ext >= 1
    /\ lastEval = <<>>
    /\ lastRet.flag
    /\ gen = "done"

\* C7: when a component raises during an iteration, the state is as it was at
\* the end of the previous iteration
C7_IterationAtomic ==
    gen = "raised" => solver_state = prev

\* C8: an exception of the policy, the observation operator or the belief
\* update ends the run: it reaches the caller of solve, and no component is
\* called after it
C8_ErrorsPropagate ==
    /\ \A i \in DOMAIN trace :
          trace[i] = "raise" => \A j \in (i + 1)..Len(trace) : trace[j] = "criterion"
    /\ (\E i \in DOMAIN trace : trace[i] = "raise") =>
          /\ gen = "raised"
          /\ err \in {"policy", "observe", "update"}
          /\ driver = "solve" => result = [kind |-> "raise", error |-> err]

C8_Witness ==
    /\ gen = "raised"
    /\ err = "update"
    /\ driver = "solve"
    /\ yields >= 1
    /\ result = [kind |-> "raise", error |-> "update"]

\* C9: the stored residual is A x_mean - b after initialisation and after every
\* iteration, and every iteration with s'y # 0 used the step size -(s'r)/(s'y)
\* for the residual and for the solution mean
C9_ResidualTracksSolution ==
    /\ gen = "created" =>
          solver_state.residual =
              VSub(MatVec(problem.A, solver_state.belief.x), problem.b)
    /\ (/\ gen = "suspended"
        /\ Dot(lastAction, lastObs) # Zero
        /\ VFinite(prev.residual)
        /\ VFinite(prev.belief.x)) =>
          LET alpha == RDiv(RNeg(Dot(lastAction, prev.residual)),
                            Dot(lastAction, lastObs))
          IN  /\ solver_state.step_sizes[Len(solver_state.step_sizes)] = alpha
              /\ solver_state.residual = VAdd(prev.residual, VScale(alpha, lastObs))
              /\ solver_state.belief.x = VAdd(prev.belief.x, VScale(alpha, lastAction))
              /\ solver_state.residual =
                     VSub(MatVec(problem.A, solver_state.belief.x), problem.b)

\* C10: after k iterations action_obs_innerprods has k entries, entry i being
\* s_i'y_i, and step_sizes and log_rayleigh_quotients have k entries
C10_OneInnerProductPerIteration ==
    gen = "suspended" =>
        LET k == Len(solver_state.actions)
        IN  /\ Len(solver_state.action_obs_innerprods) = k
            /\ \A i \in 1..k :
                  solver_state.action_obs_innerprods[i] =
                      Dot(solver_state.actions[i], solver_state.observations[i])
            /\ Len(solver_state.step_sizes) = k
            /\ Len(solver_state.log_rayleigh_quotients) = k

\* C11: the update returns a plain SymmetricNormalLinearSystemBelief exactly
\* when A_eps and b_eps are both None, and otherwise a
\* NoisySymmetricNormalLinearSystemBelief carrying the noise that was passed in
C11_BeliefTypeFollowsNoise ==
    (call.op = "update" /\ ret.kind = "return") =>
        IF call.hyperparams.A_eps = None /\ call.hyperparams.b_eps = None
        THEN ret.value.type = "SymmetricNormalLinearSystemBelief"
        ELSE /\ ret.value.type = "NoisySymmetricNormalLinearSystemBelief"
             /\ ret.value.noise = call.hyperparams

C11_Witness ==
    /\ call.op = "update"
    /\ ret.kind = "return"
    /\ call.hyperparams.A_eps = None
    /\ call.hyperparams.b_eps # None
    /\ ret.value.type = "NoisySymmetricNormalLinearSystemBelief"
    /\ ret.value.noise.b_eps = Some(One)

\* C12: an update called with a noise model (A_eps or b_eps not None) raises
\* NotImplementedError; it returns no belief whose components were left
\* uncomputed
C12_NoisyUpdateNotImplemented ==
    (/\ call.op = "update"
     /\ (call.hyperparams.A_eps # None \/ call.hyperparams.b_eps # None)) =>
        ret = Raised("NotImplementedError")

\* C13: SymmetricLinearSystemBelief.update with an observation operator that
\* is not a MatVecObservation raises NotImplementedError and leaves x, A, Ainv
\* and b of the belief as they were
C13_UnsupportedOperatorLeavesBelief ==
    (call.op = "belief.update" /\ call.observation_op # "MatVecObservation") =>
        /\ ret = Raised("NotImplementedError")
        /\ belief.x = call.self.x
        /\ belief.A = call.self.A
        /\ belief.Ainv = call.self.Ainv
        /\ belief.b = call.self.b

C13_Witness ==
    /\ call.op = "belief.update"
    /\ call.observation_op = "ObservationOperator"
    /\ call.action = OnesVec
    /\ calls = 2
    /\ ret.kind = "raise"
    /\ belief.A.mean.kind = "MatrixMult"

\* C14: from_scalar raises ValueError for every alpha <= 0 and constructs no
\* belief; for alpha > 0 the belief has prior means A0 = alpha I and
\* Ainv0 = (1/alpha) I, so that A0 Ainv0 = I
C14_FromScalarValidatesAlpha ==
    call.op = "from_scalar" =>
        IF call.scalar[1] <= 0
        THEN ret = Raised("ValueError")
        ELSE /\ ret.kind = "return"
             /\ \A i, j \in Idx :
                   /\ ret.value.A.mean.M[i][j] =
                          (IF i = j THEN call.scalar ELSE Zero)
                   /\ ret.value.Ainv.mean.M[i][j] =
                          (IF i = j THEN <<call.scalar[2], call.scalar[1]>> ELSE Zero)
             /\ ret.value.A0 = ret.value.A.mean
             /\ ret.value.Ainv0 = ret.value.Ainv.mean
             /\ MatMul(ret.value.A0.M, ret.value.Ainv0.M) = Identity

C14_Witness ==
    /\ call.op = "from_scalar"
    /\ call.scalar = Half
    /\ ret.kind = "return"
    /\ ret.value.Ainv0.scalar = <<2, 1>>

\* C15: for every belief class, from_inverse(H0, problem) returns a belief
\* whose mean of A is the inverse of H0, and raises TypeError when H0 has no
\* inv(); it never puts another matrix, such as the problem's, in its place
C15_FromInverseInvertsOrRaises ==
    call.op = "from_inverse" =>
        IF HasInv(call.Ainv0)
        THEN /\ ret.kind = "return"
             /\ MatMul(ret.value.A.mean.M, call.Ainv0.M) = Identity
        ELSE ret = Raised("TypeError")

\* C16: a WeakMeanCorrespondenceBelief constructed without actions or without
\* observations has the covariance factors W_A = Phi I and W_H = Psi I, whatever
\* the prior means A0 and Ainv0 are
C16_NoActionsScaledIdentityFactors ==
    (/\ call.op = "WeakMeanCorrespondenceBelief"
     /\ (call.actions = None \/ call.observations = None)) =>
        /\ ret.value.A.cov.A.M = MatScale(call.uncertainty_scales.Phi, Identity)
        /\ ret.value.Ainv.cov.A.M = MatScale(call.uncertainty_scales.Psi, Identity)
        /\ ret.value.A.mean = call.A0
        /\ ret.value.Ainv.mean = call.Ainv0

C16_Witness ==
    /\ call.op = "WeakMeanCorrespondenceBelief"
    /\ call.actions # None
    /\ call.observations = None
    /\ call.A0 = MatrixMult(Tridiag(2, 1))
    /\ call.uncertainty_scales.Psi = Half
    /\ ret.value.Ainv.cov.A.M = MatScale(Half, Identity)

\* C17: the induced solution belief has mean E[H] b, a covariance operator that
\* maps every v to 1/2 ((b'Wb) W v + Wb (Wb)'v), and a trace() equal to the
\* trace of that matrix
C17_InducedSolutionDistribution ==
    call.op = "induced_solution" =>
        LET W == call.Ainv.cov.A.M
            b == call.b
            Wb == [i \in Idx |-> Dot(W[i], b)]
            bWb == Dot(b, Wb)
            Sigma == [i \in Idx |-> [j \in Idx |->
                        RMul(Half, RAdd(RMul(bWb, W[i][j]), RMul(Wb[i], Wb[j])))]]
        IN  /\ ret.kind = "return"
            /\ \A i \in Idx : ret.value.mean[i] = Dot(call.Ainv.mean.M[i], b)
            /\ \A v \in Actions : \A i \in Idx :
                  Dot(ret.value.cov.M[i], v) = Dot(Sigma[i], v)
            /\ ret.value.cov.trace = SumTo([i \in Idx |-> Sigma[i][i]], N)

C17_Witness ==
    /\ call.op = "induced_solution"
    /\ call.b = OnesVec
    /\ call.Ainv.cov.A.M # Transpose(call.Ainv.cov.A.M)
    /\ call.Ainv.mean # IdentityOp
    /\ ret.value.cov.trace # Zero
    /\ ret.value.cov.M # Transpose(ret.value.cov.M)

C19_StrategiesNeverMutated ==
    [][belief_update' = belief_update /\ stopping_criteria' = stopping_criteria]_vars

\* C20: the matrix-vector observation operator returns y = A s for the system
\* matrix A of the problem and leaves the problem and the action as they were
C20_ObservationIsMatVec ==
    call.op = "observe" =>
        /\ ret.kind = "return"
        /\ \A i \in Idx : ret.value[i] = Dot(call.problem.A[i], call.action)
        /\ problem = call.problem
        /\ ret.action = call.action

C20_Witness ==
    /\ call.op = "observe"
    /\ call.problem.A # Transpose(call.problem.A)
    /\ call.action = UnitVec(N)
    /\ ret.value # call.action
    /\ ret.value # ZeroVec

\* the residual A x - b of the solution estimate of a state
TrueResidual(st) == VSub(MatVec(problem.A, st.belief.x), problem.b)

\* ||r|| <= atol + rtol ||b|| for the residual of the solution estimate
SmallResidual(st) ==
    RLeq(Norm1(TrueResidual(st)), RMul(<<1, RtolDen>>, Norm1(problem.b)))

RunsAsAlone ==
    \A r \in RunIds :
        runs[r].gen # "created" => runs[r].st = SoloState(runs[r].st.actions)

C23_DegenerateUpdateRaises ==
    /\ (/\ call.op = "update"
        /\ call.hyperparams = NoNoise
        /\ Dot(call.action, MatVec(problem.A, call.action)) = Zero)
           => /\ ret.kind = "raise"
              /\ \A i \in 1..Len(solver_state.step_sizes) :
                    IsFinite(solver_state.step_sizes[i])
              /\ VFinite(solver_state.residual)
    /\ (/\ call.op = "belief.update"
        /\ Dot(call.action, MatVec(call.self.A.cov.A.M, call.action)) = Zero)
           => ret.kind = "raise"

\* the index sets of the principal submatrices, as increasing sequences
PrincipalIndexSeqs ==
    {q \in UNION {[1..k -> Idx] : k \in 1..N} :
        \A i \in 1..(Len(q) - 1) : q[i] < q[i + 1]}

\* v'Wv >= 0 for every vector v: the symmetric part of W is finite and all its
\* principal minors are non-negative
PositiveSemiDefinite(W) ==
    /\ MatFinite(W)
    /\ \A q \in PrincipalIndexSeqs :
          RLeq(Zero, Det(MatScale(Half, MatAdd(W, Transpose(W))), q, q))

\* symmetric with positive leading principal minors
SymmetricPositiveDefinite(A) ==
    /\ A = Transpose(A)
    /\ \A k \in Idx :
          ~RLeq(Det(A, [i \in 1..k |-> i], [i \in 1..k |-> i]), Zero)

\* C24: on a symmetric positive definite system, and from the positive
\* semi-definite factors A and H0 of the prior, the covariance factors of the
\* beliefs over A and over H are positive semi-definite after every update
\* with a non-zero action: an update handed positive semi-definite factors
\* leaves positive semi-definite factors
C24_CovarianceFactorsStayPSD ==
    (/\ call.op = "belief.update"
     /\ ret.kind = "return"
     /\ call.action # ZeroVec
     /\ SymmetricPositiveDefinite(problem.A)
     /\ PositiveSemiDefinite(call.self.A.cov.A.M)
     /\ PositiveSemiDefinite(call.self.Ainv.cov.A.M))
        => /\ PositiveSemiDefinite(belief.A.cov.A.M)
           /\ PositiveSemiDefinite(belief.Ainv.cov.A.M)

\* what a step has added to the trace of component calls
NewTrace == SubSeq(trace', Len(trace) + 1, Len(trace'))

\* C26: an iteration that reaches its yield has called the policy, the
\* observation operator, the belief update and then the stopping criteria, in
\* this order; the policy was handed the belief of the previous yield (the
\* prior in the first iteration), the observation is the operator's value at
\* the action the policy returned, the state after the iteration is the
\* update's result for that action and that observation, and no criterion is
\* evaluated between the policy and the update
C26_ComponentOrder ==
    [][yields' = yields + 1 =>
          /\ \E j \in 0..Len(NewTrace) :
                /\ NewTrace = Repeat("criterion", j)
                                  \o <<"policy", "observe", "update">>
                                  \o Repeat("criterion", Len(lastEval'))
                /\ gen = "suspended" => j = 0
          /\ prev'.belief = IF gen = "created" THEN prior ELSE solver_state.belief
          /\ solver_state'.actions = Append(prev'.actions, lastAction')
          /\ lastObs' = MatVecObservation(problem, lastAction', None).observation
          /\ solver_state'.observations = Append(prev'.observations, lastObs')
          /\ \E u \in {Update(AppendObservation(AppendAction(prev', lastAction'),
                                                  lastObs'),
                                prev'.belief, lastAction', lastObs', NoNoise)} :
                /\ solver_state'.belief = u.belief
                /\ solver_state'.residual = u.st.residual]_vars

C26_Witness ==
    /\ yields = 2
    /\ gen = "suspended"
    /\ ~solver_state.has_converged
    /\ prev.belief # prior
    /\ solver_state.belief # prev.belief
    /\ lastAction # ZeroVec
    /\ Len(lastEval) = 2

\* C27: the second component of the pair has_converged returns is the solver
\* state it was passed, and the first component is that state's has_converged
\* flag after the call
C27_ReturnsStatePassedIn ==
    /\ lastRet.ret = "state"
    /\ gen # "raised" => (lastRet.flag <=> solver_state.has_converged)

SymmetricMatrix(W) == MatFinite(W) /\ W = Transpose(W)

\* the updated matrix belief maps the action s to the observation y and its
\* covariance factor maps s to zero, for a prior N(M0, W (x)s W) with W
\* symmetric and s'Ws nonzero
SecantAfterUpdate(before, after, s, y) ==
    (/\ MatFinite(before.mean.M)
     /\ SymmetricMatrix(before.cov.A.M)
     /\ VFinite(y)
     /\ Dot(s, MatVec(before.cov.A.M, s)) # Zero)
        => /\ MatVec(after.mean.M, s) = y
           /\ MatVec(after.cov.A.M, s) = ZeroVec

C30_DeterminantAgreesWithRank ==
    call.op = "projection" =>
        IF OrthogonalProjection_rank(call.self) = N
        THEN /\ call.self.M = Identity
             /\ ret.value.det = One
             /\ ret.value.cond = One
             /\ ret.value.logabsdet = Zero
        ELSE /\ OrthogonalProjection_rank(call.self) < N
             /\ ret.value.det = Zero
             /\ ret.value.cond = inf
             /\ ret.value.logabsdet = neginf

====
